---------------------------- MODULE Spec2Model ----------------------------
(***************************************************************************)
(* A model of src/app.js: the Messenger webhook of a restaurant bot.       *)
(*                                                                         *)
(* The program keeps no data between requests.  Its state is the set of    *)
(* pending timers (setTimeout), the Send API requests whose completion     *)
(* callback has not run yet, and whether the node process is still alive.  *)
(* The remaining variables are observations: the latest POST request, its  *)
(* response, and the handler calls and Send API calls made since that      *)
(* request arrived (delayed sends of earlier requests included).           *)
(*                                                                         *)
(* JavaScript values: an optional value (a field that may be undefined) is *)
(* a sequence of length 0 or 1; a text is a sequence of one-character      *)
(* strings, so that toLowerCase is computed character by character.        *)
(***************************************************************************)
EXTENDS Integers, Sequences, FiniteSets, TLC

VARIABLES
    alive,      \* the node process is running
    nreq,       \* number of POST /webhook requests received so far
    req,        \* the latest POST /webhook request: <<>> or <<[signature, body]>>
    res,        \* the HTTP response to it
    calls,      \* handler / reply functions called since that request arrived
    sends,      \* callSendAPI invocations since that request arrived
    timers,     \* pending setTimeout callbacks, in firing order
    inflight,   \* Send API requests whose completion callback has not run
    completion, \* the latest Send API completion since that request: <<>> or
                \* <<[outcome, log]>>, log being what its callback did
    gets        \* the GET /webhook exchanges so far

vars == <<alive, nreq, req, res, calls, sends, timers, inflight, completion, gets>>

---------------------------------------------------------------------------
(* Bounds of the model. *)

MaxRequests == 2    \* POST requests in one behaviour
MaxBatch == 2       \* messaging events in one batch
MaxTimers == 2      \* pending timers
MaxInflight == 4    \* Send API requests in flight
MaxGets == 2        \* GET /webhook requests in one behaviour

---------------------------------------------------------------------------
(* JavaScript values. *)

None == <<>>
Some(x) == <<x>>

\* ToBoolean of an optional string: undefined and "" are falsy.
TruthyStr(o) == o # None /\ o[1] # ""

\* ToBoolean of an optional text (a sequence of characters).
TruthyText(o) == o # None /\ Len(o[1]) > 0

UpperChars == <<"A","B","C","D","E","F","G","H","I","J","K","L","M",
                "N","O","P","Q","R","S","T","U","V","W","X","Y","Z">>
LowerChars == <<"a","b","c","d","e","f","g","h","i","j","k","l","m",
                "n","o","p","q","r","s","t","u","v","w","x","y","z">>

\* String.prototype.toLowerCase, one character.
LowerChar(c) ==
    IF \E i \in 1..Len(UpperChars) : UpperChars[i] = c
    THEN LowerChars[CHOOSE i \in 1..Len(UpperChars) : UpperChars[i] = c]
    ELSE c

\* A variant that leaves the text as it is.
toLowerCase_Identity(t) == t

\* String.prototype.toLowerCase.
toLowerCase(t) == [i \in 1..Len(t) |-> LowerChar(t[i])]

\* String.prototype.split: the pieces of the token sequence s between
\* occurrences of the separator sep.
RECURSIVE split(_, _)
split(s, sep) ==
    IF \A i \in 1..Len(s) : s[i] # sep
    THEN <<s>>
    ELSE LET k == CHOOSE i \in 1..Len(s) :
                     s[i] = sep /\ \A j \in 1..(i-1) : s[j] # sep
         IN  <<SubSeq(s, 1, k-1)>> \o split(SubSeq(s, k+1, Len(s)), sep)

---------------------------------------------------------------------------
(* Process configuration. *)

APP_SECRET == "app-secret"
VALIDATION_TOKEN == "verify-me"
delayMills == 1000


---------------------------------------------------------------------------
(* The run of one callback.  A callback (a request handler, a timer        *)
(* callback) runs to completion; rs collects what it does: the functions   *)
(* it calls, the Send API requests it starts, the timers it sets, and the  *)
(* exception it throws, if any.  cx tells where the call comes from: the   *)
(* event being handled (o) and whether a timer callback is running.        *)

NoRun == [calls |-> <<>>, sends |-> <<>>, timers |-> <<>>, threw |-> None]

Call(rs, cx, fn) ==
    [rs EXCEPT !.calls = Append(@, [fn |-> fn, o |-> cx.o, delayed |-> cx.delayed])]

Throw(rs, err) == [rs EXCEPT !.threw = Some(err)]

\* An outbound message: recipient, kind of message, its text and the
\* titles of its elements or the payloads of its quick replies.
MessageData(recipientId, type, text, items) ==
    [recipient |-> recipientId, type |-> type, text |-> text, items |-> items]

\* callSendAPI starts the request and returns; its completion callback
\* runs later (CompleteSend).
callSendAPI(rs, cx, messageData) ==
    [rs EXCEPT !.sends = Append(@, [data |-> messageData, o |-> cx.o,
                                    delayed |-> cx.delayed])]

\* A variant that forgets the callback.
setTimeout_Dropped(rs, cx, fn, arg, delay) == rs

\* A variant that registers the callback twice.
setTimeout_Twice(rs, cx, fn, arg, delay) ==
    LET t == [fn |-> fn, arg |-> arg, delay |-> delay, o |-> cx.o]
    IN  [rs EXCEPT !.timers = @ \o <<t, t>>]

setTimeout(rs, cx, fn, arg, delay) ==
    [rs EXCEPT !.timers = Append(@, [fn |-> fn, arg |-> arg, delay |-> delay,
                                     o |-> cx.o])]

---------------------------------------------------------------------------
(* Reply composers. *)

sendWelcomeMessage(rs, cx, recipientId) ==
    callSendAPI(Call(rs, cx, "sendWelcomeMessage"), cx,
        MessageData(recipientId, "generic", "", <<"Welcome to Famous Greek ">>))

sendMainMenu(rs, cx, recipientId) ==
    callSendAPI(Call(rs, cx, "sendMainMenu"), cx,
        MessageData(recipientId, "generic", "",
            <<"Family Meals", "Soups & Starters", "Salads", "Party Salads",
              "Party Platters", "Beverages">>))

sendLocationTemplate(rs, cx, recipientId) ==
    callSendAPI(Call(rs, cx, "sendLocationTemplate"), cx,
        MessageData(recipientId, "generic", "", <<"Famous Greek Salads">>))

sendOpeningHoursText(rs, cx, recipientId) ==
    callSendAPI(Call(rs, cx, "sendOpeningHoursText"), cx,
        MessageData(recipientId, "text", "RESTAURANT HOURS", <<>>))

sendQuickReplySpecial(rs, cx, recipientId) ==
    callSendAPI(Call(rs, cx, "sendQuickReplySpecial"), cx,
        MessageData(recipientId, "quick_replies",
            "Checkout our most appreciated dishes by our customer's",
            <<"DEVELOPER_DEFINED_PAYLOAD_FOR_ALL_SPECIAL",
              "DEVELOPER_DEFINED_PAYLOAD_FOR_DAILY_SPECIAL",
              "DEVELOPER_DEFINED_PAYLOAD_FOR_PARTY_SPECIAL">>))

sendAllSpecial(rs, cx, recipientId) ==
    callSendAPI(Call(rs, cx, "sendAllSpecial"), cx,
        MessageData(recipientId, "generic", "",
            <<"1/4 Greek Chicken", "Famous Greek Combo", "Moussaka">>))

sendDailySpecial(rs, cx, recipientId) ==
    callSendAPI(Call(rs, cx, "sendDailySpecial"), cx,
        MessageData(recipientId, "generic", "",
            <<"Family Meal for 4 - Grilled Chicken with Rice!",
              "Family Meal for 4 - Subs and Pitas",
              "Family Meal for 6 - Grilled Chicken with Rice!">>))

sendPartySpecial(rs, cx, recipientId) ==
    callSendAPI(Call(rs, cx, "sendPartySpecial"), cx,
        MessageData(recipientId, "generic", "",
            <<"Chicken Souvlaki Or Gyro Platter", "Deli Wrap Tray",
              "Famous Cubans Tray">>))

sendQuickRepliesActions(rs, cx, recipientId) ==
    callSendAPI(Call(rs, cx, "sendQuickRepliesActions"), cx,
        MessageData(recipientId, "quick_replies", "Get Connected with us...",
            <<"DEVELOPER_DEFINED_PAYLOAD_FOR_TESTIMONALS",
              "DEVELOPER_DEFINED_PAYLOAD_REVIEWS",
              "DEVELOPER_DEFINED_PAYLOAD_START_OVER">>))

showTestimonials(rs, cx, recipientId) ==
    callSendAPI(Call(rs, cx, "showTestimonials"), cx,
        MessageData(recipientId, "text",
            "Famous Greek Salads offers fresh and healthy Greek food", <<>>))

\* The body of showReviews is commented out: it sends nothing.
showReviews(rs, cx, recipientId) == Call(rs, cx, "showReviews")

greetText(rs, cx, recipientId) ==
    callSendAPI(Call(rs, cx, "greetText"), cx,
        MessageData(recipientId, "text", "Hi, We'r happy to see u..", <<>>))

\* A variant that addresses the indicator to one fixed user.
sendTypingOn_Fixed(rs, cx, recipientId) ==
    callSendAPI(Call(rs, cx, "sendTypingOn"), cx,
        MessageData(101, "sender_action", "typing_on", <<>>))

sendTypingOn(rs, cx, recipientId) ==
    callSendAPI(Call(rs, cx, "sendTypingOn"), cx,
        MessageData(recipientId, "sender_action", "typing_on", <<>>))


---------------------------------------------------------------------------
(* Event handlers.  An event is a record                                   *)
(*   [sender, optin, message, delivery, postback, read, account_linking]   *)
(* where sender is an optional id, message an optional                     *)
(*   [is_echo, quick_reply, text, attachments],                            *)
(* quick_reply and postback are optional [payload |-> optional string],    *)
(* and the other fields tell whether the event carries that object.        *)
(* The platform always sends recipient along with sender: an event without *)
(* sender makes event.sender.id throw a TypeError.                         *)

\* The case labels of the switch over the lowercased text (receivedMessage).
KwTodaysSpecialApos == <<"t","o","d","a","y","'","s"," ","s","p","e","c","i","a","l">>
KwTodaysSpecial == <<"t","o","d","a","y","s"," ","s","p","e","c","i","a","l">>
KwMenu == <<"m","e","n","u">>
KwSpecial == <<"s","p","e","c","i","a","l">>
KwSpecialDishes == <<"s","p","e","c","i","a","l"," ","d","i","s","h","e","s">>
KwParty == <<"p","a","r","t","y">>
KwPartySpecial == <<"p","a","r","t","y"," ","s","p","e","c","i","a","l">>
KwOpeningHours == <<"o","p","e","n","i","n","g"," ","h","o","u","r","s">>
KwGallery == <<"g","a","l","l","e","r","y">>
KwReviews == <<"r","e","v","i","e","w","s">>
KwHungry == <<"h","u","n","g","r","y">>

\* receivedAuthentication: sendTextMessage is defined nowhere in app.js, so
\* the call throws a ReferenceError (after event.sender.id was read).
receivedAuthentication(rs0, cx, event) ==
    LET rs == Call(rs0, cx, "receivedAuthentication")
    IN  IF event.sender = None THEN Throw(rs, "TypeError")
        ELSE Throw(rs, "ReferenceError")

\* A variant without the switch: every quick reply gets the welcome.
receivedQuickReplyPostback_NoSwitch(rs0, cx, event) ==
    LET rs == Call(rs0, cx, "receivedQuickReplyPostback")
        senderID == event.sender[1]
    IN  sendWelcomeMessage(sendTypingOn(rs, cx, senderID), cx, senderID)

receivedQuickReplyPostback(rs0, cx, event) ==
    LET rs == Call(rs0, cx, "receivedQuickReplyPostback")
        senderID == event.sender[1]
        payload == event.message[1].quick_reply[1].payload
        typing == sendTypingOn(rs, cx, senderID)
    IN  IF TruthyStr(payload)
        THEN CASE payload[1] = "DEVELOPER_DEFINED_PAYLOAD_FOR_ALL_SPECIAL" ->
                    sendAllSpecial(typing, cx, senderID)
               [] payload[1] = "DEVELOPER_DEFINED_PAYLOAD_FOR_DAILY_SPECIAL" ->
                    sendDailySpecial(typing, cx, senderID)
               [] payload[1] = "DEVELOPER_DEFINED_PAYLOAD_FOR_PARTY_SPECIAL" ->
                    \* no break: falls through into the REVIEWS case
                    showReviews(sendPartySpecial(typing, cx, senderID), cx, senderID)
               [] payload[1] = "DEVELOPER_DEFINED_PAYLOAD_REVIEWS" ->
                    showReviews(rs, cx, senderID)
               [] payload[1] = "DEVELOPER_DEFINED_PAYLOAD_FOR_TESTIMONALS" ->
                    showTestimonials(rs, cx, senderID)
               [] payload[1] = "DEVELOPER_DEFINED_PAYLOAD_START_OVER" ->
                    sendWelcomeMessage(typing, cx, senderID)
               [] OTHER ->
                    sendWelcomeMessage(typing, cx, senderID)
        ELSE sendWelcomeMessage(typing, cx, senderID)

\* Variants of receivedMessage: without the echo test (answerEcho), without
\* the case labels in dropped, with the follow-up prompt after an attachment
\* that the code has commented out (prompt).
receivedMessage_Variant(rs0, cx, event, answerEcho, dropped, prompt) ==
    LET rs == Call(rs0, cx, "receivedMessage")
        senderID == event.sender[1]
        message == event.message[1]
        messageText == toLowerCase(message.text[1])
        typing == sendTypingOn(rs, cx, senderID)
        Is(kw) == messageText = kw /\ kw \notin dropped
    IN  IF event.sender = None THEN Throw(rs, "TypeError")
        ELSE IF message.is_echo /\ ~answerEcho THEN rs
        ELSE IF message.quick_reply # None
        THEN receivedQuickReplyPostback(rs, cx, event)
        ELSE IF TruthyText(message.text)
        THEN CASE Is(KwTodaysSpecialApos) -> sendAllSpecial(typing, cx, senderID)
               [] Is(KwTodaysSpecial) -> sendAllSpecial(typing, cx, senderID)
               [] Is(KwMenu) -> sendMainMenu(typing, cx, senderID)
               [] Is(KwSpecial) -> sendAllSpecial(typing, cx, senderID)
               [] Is(KwSpecialDishes) -> sendAllSpecial(typing, cx, senderID)
               [] Is(KwParty) -> sendPartySpecial(typing, cx, senderID)
               [] Is(KwPartySpecial) -> sendPartySpecial(typing, cx, senderID)
               [] Is(KwOpeningHours) -> sendOpeningHoursText(typing, cx, senderID)
               [] Is(KwGallery) -> rs
               [] Is(KwReviews) -> rs
               [] Is(KwHungry) -> rs
               [] OTHER ->
                    setTimeout(sendWelcomeMessage(typing, cx, senderID), cx,
                               "greetText", senderID, delayMills)
        ELSE IF message.attachments
        THEN IF prompt
             THEN setTimeout(sendWelcomeMessage(typing, cx, senderID), cx,
                             "sendQuickReplySpecial", senderID, delayMills)
             ELSE sendWelcomeMessage(typing, cx, senderID)
        ELSE rs

\* A variant that tests the text before the quick reply.
receivedMessage_TextFirst(rs0, cx, event) ==
    IF /\ event.sender # None
       /\ ~event.message[1].is_echo
       /\ TruthyText(event.message[1].text)
    THEN receivedMessage_Variant(rs0, cx,
            [event EXCEPT !.message[1].quick_reply = None], FALSE, {}, FALSE)
    ELSE receivedMessage_Variant(rs0, cx, event, FALSE, {}, FALSE)

\* A variant that does not test is_echo.
receivedMessage_NoEchoTest(rs0, cx, event) ==
    receivedMessage_Variant(rs0, cx, event, TRUE, {}, FALSE)

\* A variant whose switch lacks the label 'special dishes'.
receivedMessage_NoSynonym(rs0, cx, event) ==
    receivedMessage_Variant(rs0, cx, event, FALSE, {KwSpecialDishes}, FALSE)

\* A variant whose switch lacks the labels 'gallery', 'reviews', 'hungry'.
receivedMessage_NoReserved(rs0, cx, event) ==
    receivedMessage_Variant(rs0, cx, event, FALSE, {KwGallery, KwReviews, KwHungry}, FALSE)

\* A variant with the prompt after an attachment.
receivedMessage_AttachmentPrompt(rs0, cx, event) ==
    receivedMessage_Variant(rs0, cx, event, FALSE, {}, TRUE)

receivedMessage(rs0, cx, event) ==
    LET rs == Call(rs0, cx, "receivedMessage")
        senderID == event.sender[1]
        message == event.message[1]
        messageText == toLowerCase(message.text[1])
        typing == sendTypingOn(rs, cx, senderID)
    IN  IF event.sender = None THEN Throw(rs, "TypeError")
        ELSE IF message.is_echo THEN rs
        ELSE IF message.quick_reply # None
        THEN receivedQuickReplyPostback(rs, cx, event)
        ELSE IF TruthyText(message.text)
        THEN CASE messageText = KwTodaysSpecialApos -> sendAllSpecial(typing, cx, senderID)
               [] messageText = KwTodaysSpecial -> sendAllSpecial(typing, cx, senderID)
               [] messageText = KwMenu -> sendMainMenu(typing, cx, senderID)
               [] messageText = KwSpecial -> sendAllSpecial(typing, cx, senderID)
               [] messageText = KwSpecialDishes -> sendAllSpecial(typing, cx, senderID)
               [] messageText = KwParty -> sendPartySpecial(typing, cx, senderID)
               [] messageText = KwPartySpecial -> sendPartySpecial(typing, cx, senderID)
               [] messageText = KwOpeningHours -> sendOpeningHoursText(typing, cx, senderID)
               [] messageText = KwGallery -> rs
               [] messageText = KwReviews -> rs
               [] messageText = KwHungry -> rs
               [] OTHER ->
                    setTimeout(sendWelcomeMessage(typing, cx, senderID), cx,
                               "greetText", senderID, delayMills)
        ELSE IF message.attachments
        THEN sendWelcomeMessage(typing, cx, senderID)
        ELSE rs

\* A variant that confirms the delivery to the user.
receivedDeliveryConfirmation_Reply(rs0, cx, event) ==
    LET rs == Call(rs0, cx, "receivedDeliveryConfirmation")
    IN  IF event.sender = None THEN Throw(rs, "TypeError")
        ELSE callSendAPI(rs, cx,
                MessageData(event.sender[1], "text", "Message delivered", <<>>))

receivedDeliveryConfirmation(rs0, cx, event) ==
    LET rs == Call(rs0, cx, "receivedDeliveryConfirmation")
    IN  IF event.sender = None THEN Throw(rs, "TypeError") ELSE rs

\* A variant without the switch: every postback gets the welcome.
receivedPostback_NoSwitch(rs0, cx, event) ==
    LET rs == Call(rs0, cx, "receivedPostback")
        senderID == event.sender[1]
    IN  IF event.sender = None THEN Throw(rs, "TypeError")
        ELSE sendWelcomeMessage(sendTypingOn(rs, cx, senderID), cx, senderID)

receivedPostback(rs0, cx, event) ==
    LET rs == Call(rs0, cx, "receivedPostback")
        senderID == event.sender[1]
        payload == event.postback[1].payload
        typing == sendTypingOn(rs, cx, senderID)
    IN  IF event.sender = None THEN Throw(rs, "TypeError")
        ELSE IF TruthyStr(payload)
        THEN CASE payload[1] = "DEVELOPER_DEFINED_PAYLOAD_FOR_MENU" ->
                    sendMainMenu(typing, cx, senderID)
               [] payload[1] = "DEVELOPER_DEFINED_PAYLOAD_FOR_LOCATION" ->
                    setTimeout(sendLocationTemplate(typing, cx, senderID), cx,
                               "sendQuickReplySpecial", senderID, delayMills)
               [] payload[1] = "DEVELOPER_DEFINED_PAYLOAD_FOR_OPENING_HOURS" ->
                    setTimeout(sendOpeningHoursText(typing, cx, senderID), cx,
                               "sendQuickReplySpecial", senderID, delayMills)
               [] payload[1] = "GET_STARTED_BUTTON_PAYLOAD" -> rs
               [] payload[1] = "DEVELOPER_DEFINED_PAYLOAD_FOR_ALL_SPECIAL" ->
                    sendAllSpecial(typing, cx, senderID)
               [] payload[1] = "DEVELOPER_DEFINED_PAYLOAD_FOR_DAILY_SPECIAL" ->
                    sendDailySpecial(typing, cx, senderID)
               [] payload[1] = "DEVELOPER_DEFINED_PAYLOAD_FOR_PARTY_SPECIAL" ->
                    \* no break: falls through into the ALL_SPECIAL_BACK case
                    sendQuickRepliesActions(sendPartySpecial(typing, cx, senderID),
                                            cx, senderID)
               [] payload[1] = "DEVELOPER_DEFINED_PAYLOAD_FOR_ALL_SPECIAL_BACK" ->
                    sendQuickRepliesActions(rs, cx, senderID)
               [] payload[1] = "DEVELOPER_DEFINED_PAYLOAD_FOR_DAILY_SPECIAL_BACK" ->
                    sendQuickRepliesActions(rs, cx, senderID)
               [] payload[1] = "DEVELOPER_DEFINED_PAYLOAD_FOR_PARTY_SPECIAL_BACK" ->
                    sendQuickRepliesActions(rs, cx, senderID)
               [] payload[1] = "DEVELOPER_DEFINED_PAYLOAD_FOR_MAIN_MENU_BACK" ->
                    sendQuickReplySpecial(rs, cx, senderID)
               [] OTHER ->
                    sendWelcomeMessage(typing, cx, senderID)
        ELSE sendWelcomeMessage(typing, cx, senderID)

receivedMessageRead(rs0, cx, event) ==
    LET rs == Call(rs0, cx, "receivedMessageRead")
    IN  IF event.sender = None THEN Throw(rs, "TypeError") ELSE rs

receivedAccountLink(rs0, cx, event) ==
    LET rs == Call(rs0, cx, "receivedAccountLink")
    IN  IF event.sender = None THEN Throw(rs, "TypeError") ELSE rs


---------------------------------------------------------------------------
(* POST /webhook. *)

\* The pieces of an X-Hub-Signature header value.  The value is a sequence
\* of tokens: literal text, "=", or the hex digest of an HMAC-SHA1.
Lit(t) == [lit |-> t]
EqSign == Lit("=")

\* crypto.createHmac('sha1', key).update(buf).digest('hex'): the digest is
\* determined by the key and the bytes, and differs when either differs.
HmacSha1Hex(key, buf) == <<[hmac |-> key, of |-> buf]>>

\* A variant that compares the method name instead of the digest.
verifyRequestSignature_Method(signature, buf) ==
    IF signature = None \/ signature[1] = <<>>
    THEN TRUE
    ELSE LET elements == split(signature[1], EqSign)
         IN  elements[1] = <<Lit("sha1")>>

\* verifyRequestSignature returns normally (TRUE) or throws (FALSE).
\* signature is the optional header value, buf the raw body.
verifyRequestSignature(signature, buf) ==
    IF signature = None \/ signature[1] = <<>>
    THEN TRUE       \* !signature: only console.error
    ELSE LET elements == split(signature[1], EqSign)
             signatureHash == IF Len(elements) >= 2 THEN Some(elements[2]) ELSE None
             expectedHash == HmacSha1Hex(APP_SECRET, buf)
         IN  ~(signatureHash # Some(expectedHash))

\* HTTP responses.
NoResponse == [sent |-> FALSE, status |-> 0, body |-> ""]

StatusText(code) ==
    CASE code = 200 -> "OK"
      [] code = 403 -> "Forbidden"
      [] code = 500 -> "Internal Server Error"
      [] OTHER -> ""

\* res.sendStatus(code): the status, with its status text as the body.
sendStatus(code) == [sent |-> TRUE, status |-> code, body |-> StatusText(code)]

\* What express answers when a handler or the body parser throws: the
\* error's status (403 from the body parser's verify hook), or 500.
errorResponse(code) == [sent |-> TRUE, status |-> code, body |-> "error"]

\* A variant that tests message before optin.
dispatchEvent_MessageFirst(rs, cx, messagingEvent) ==
    IF messagingEvent.message # None THEN receivedMessage(rs, cx, messagingEvent)
    ELSE IF messagingEvent.optin THEN receivedAuthentication(rs, cx, messagingEvent)
    ELSE IF messagingEvent.delivery THEN receivedDeliveryConfirmation(rs, cx, messagingEvent)
    ELSE IF messagingEvent.postback # None THEN receivedPostback(rs, cx, messagingEvent)
    ELSE IF messagingEvent.read THEN receivedMessageRead(rs, cx, messagingEvent)
    ELSE IF messagingEvent.account_linking THEN receivedAccountLink(rs, cx, messagingEvent)
    ELSE rs

\* The body of pageEntry.messaging.forEach's callback: the if / else-if
\* chain over the event's fields.
dispatchEvent(rs, cx, messagingEvent) ==
    IF messagingEvent.optin THEN receivedAuthentication(rs, cx, messagingEvent)
    ELSE IF messagingEvent.message # None THEN receivedMessage(rs, cx, messagingEvent)
    ELSE IF messagingEvent.delivery THEN receivedDeliveryConfirmation(rs, cx, messagingEvent)
    ELSE IF messagingEvent.postback # None THEN receivedPostback(rs, cx, messagingEvent)
    ELSE IF messagingEvent.read THEN receivedMessageRead(rs, cx, messagingEvent)
    ELSE IF messagingEvent.account_linking THEN receivedAccountLink(rs, cx, messagingEvent)
    ELSE rs     \* console.log("Webhook received unknown messagingEvent")

\* pageEntry.messaging.forEach from event j on: an exception ends the loop.
RECURSIVE forEachEvent(_, _, _, _, _)
forEachEvent(rs, n, i, messaging, j) ==
    IF rs.threw # None \/ j > Len(messaging) THEN rs
    ELSE forEachEvent(
            dispatchEvent(rs, [o |-> [req |-> n, entry |-> i, ev |-> j],
                               delayed |-> FALSE], messaging[j]),
            n, i, messaging, j + 1)

\* data.entry.forEach from entry i on.  An entry without messaging makes
\* pageEntry.messaging.forEach throw a TypeError.
RECURSIVE forEachEntry(_, _, _, _)
forEachEntry(rs, n, entry, i) ==
    IF rs.threw # None \/ i > Len(entry) THEN rs
    ELSE forEachEntry(
            IF entry[i].messaging = None THEN Throw(rs, "TypeError")
            ELSE forEachEvent(rs, n, i, entry[i].messaging[1], 1),
            n, entry, i + 1)

\* The handler of app.post('/webhook'): the run of request number n with
\* body data = [object, entry], both optional.
webhookPost(n, data) ==
    LET rs == Call(NoRun, [o |-> [req |-> n, entry |-> 0, ev |-> 0], delayed |-> FALSE],
                      "webhookPost")
    IN  IF data.object = Some("page")
        THEN IF data.entry = None THEN Throw(rs, "TypeError")
             ELSE forEachEntry(rs, n, data.entry[1], 1)
        ELSE rs

\* The response of the POST: 200 at the end of the page branch, nothing in
\* the other branch, express's 500 when the handler threw.
webhookPostResponse(data, rs) ==
    IF rs.threw # None THEN errorResponse(500)
    ELSE IF data.object = Some("page") THEN sendStatus(200)
    ELSE NoResponse

\* A POST /webhook request with a JSON body: the body parser calls the
\* verify hook on the raw body, and the handler runs if it did not throw.
\* The raw body is identified with the value it parses to.
PostWebhook(signature, data) ==
    /\ alive
    /\ nreq < MaxRequests
    /\ LET n == nreq + 1
           verified == verifyRequestSignature(signature, data)
           rs == IF verified THEN webhookPost(n, data) ELSE NoRun
       IN  /\ Len(timers) + Len(rs.timers) <= MaxTimers
           /\ inflight + Len(rs.sends) <= MaxInflight
           /\ nreq' = n
           /\ req' = Some([signature |-> signature, body |-> data])
           /\ res' = IF verified THEN webhookPostResponse(data, rs)
                     ELSE errorResponse(403)
           /\ calls' = rs.calls
           /\ sends' = rs.sends
           /\ timers' = timers \o rs.timers
           /\ inflight' = inflight + Len(rs.sends)
           /\ completion' = None
    /\ UNCHANGED <<alive, gets>>

---------------------------------------------------------------------------
(* Timers and Send API completions. *)

\* The callback of a pending timer runs.  All timers have the same delay,
\* so they fire in the order they were set.
FireTimer ==
    /\ alive
    /\ timers # <<>>
    /\ inflight < MaxInflight
    /\ LET t == Head(timers)
           cx == [o |-> t.o, delayed |-> TRUE]
           rs == IF t.fn = "greetText" THEN greetText(NoRun, cx, t.arg)
                 ELSE sendQuickReplySpecial(NoRun, cx, t.arg)
       IN  /\ calls' = calls \o rs.calls
           /\ sends' = sends \o rs.sends
           /\ inflight' = inflight + Len(rs.sends)
    /\ timers' = Tail(timers)
    /\ UNCHANGED <<alive, nreq, req, res, completion, gets>>

\* The ways a Send API request ends: (error, response, body) as the request
\* library hands them to the callback.  A transport error has no response.
SendOutcomes ==
    { [error |-> FALSE, response |-> Some(200), body |-> Some([message_id |-> TRUE])],
      [error |-> FALSE, response |-> Some(200), body |-> Some([message_id |-> FALSE])],
      [error |-> FALSE, response |-> Some(400), body |-> Some([message_id |-> FALSE])],
      [error |-> TRUE, response |-> None, body |-> None] }

\* The completion callback of callSendAPI: what it logs, or "uncaught" when
\* it throws (reading statusCode of an undefined response, or a field of an
\* undefined body).
sendCallback(outcome) ==
    IF ~outcome.error /\ outcome.response # None /\ outcome.response[1] = 200
    THEN IF outcome.body = None THEN "uncaught"
         ELSE IF outcome.body[1].message_id THEN "sent" ELSE "called"
    ELSE IF outcome.response = None \/ outcome.body = None THEN "uncaught"
         ELSE "failed"

\* A Send API request completes and its callback runs.  An exception thrown
\* by the callback is uncaught and ends the process.
CompleteSend(outcome) ==
    /\ alive
    /\ inflight > 0
    /\ inflight' = inflight - 1
    /\ completion' = Some([outcome |-> outcome, log |-> sendCallback(outcome)])
    /\ alive' = (sendCallback(outcome) # "uncaught")
    /\ UNCHANGED <<nreq, req, res, calls, sends, timers, gets>>

---------------------------------------------------------------------------
(* GET /webhook. *)

\* A variant that does not look at hub.mode.
webhookGet_TokenOnly(query) ==
    IF query.verify_token = Some(VALIDATION_TOKEN)
    THEN [sent |-> TRUE, status |-> 200,
          body |-> IF query.challenge = None THEN "" ELSE query.challenge[1]]
    ELSE sendStatus(403)

\* The handler of app.get('/webhook'); query = [mode, verify_token,
\* challenge], each optional.  res.send(undefined) sends an empty body.
webhookGet(query) ==
    IF query.mode = Some("subscribe") /\ query.verify_token = Some(VALIDATION_TOKEN)
    THEN [sent |-> TRUE, status |-> 200,
          body |-> IF query.challenge = None THEN "" ELSE query.challenge[1]]
    ELSE sendStatus(403)

GetWebhook(query) ==
    /\ alive
    /\ Len(gets) < MaxGets
    /\ gets' = Append(gets, [query |-> query, res |-> webhookGet(query)])
    /\ UNCHANGED <<alive, nreq, req, res, calls, sends, timers, inflight, completion>>

Init ==
    /\ alive = TRUE
    /\ nreq = 0
    /\ req = None
    /\ res = NoResponse
    /\ calls = <<>>
    /\ sends = <<>>
    /\ timers = <<>>
    /\ inflight = 0
    /\ completion = None
    /\ gets = <<>>


---------------------------------------------------------------------------
(* Requests the platform, or anyone else, may send. *)

BaseEvent(sender) ==
    [sender |-> sender, optin |-> FALSE, message |-> None, delivery |-> FALSE,
     postback |-> None, read |-> FALSE, account_linking |-> FALSE]

Message(is_echo, quick_reply, text, attachments) ==
    [is_echo |-> is_echo, quick_reply |-> quick_reply, text |-> text,
     attachments |-> attachments]

TextEvent(sender, text) ==
    [BaseEvent(sender) EXCEPT !.message = Some(Message(FALSE, None, Some(text), FALSE))]

QuickReplyEvent(sender, payload) ==
    [BaseEvent(sender) EXCEPT
        !.message = Some(Message(FALSE, Some([payload |-> payload]), None, FALSE))]

PostbackEvent(sender, payload) ==
    [BaseEvent(sender) EXCEPT !.postback = Some([payload |-> payload])]

OptinEvent(sender) == [BaseEvent(sender) EXCEPT !.optin = TRUE]

MessageEvent(sender, message) == [BaseEvent(sender) EXCEPT !.message = Some(message)]

DeliveryEvent(sender) == [BaseEvent(sender) EXCEPT !.delivery = TRUE]

ReadEvent(sender) == [BaseEvent(sender) EXCEPT !.read = TRUE]

AccountLinkEvent(sender) == [BaseEvent(sender) EXCEPT !.account_linking = TRUE]

\* All sequences over S of length at most n.
SeqsUpTo(S, n) == UNION {[1..k -> S] : k \in 0..n}

\* The page entries made of the events s, a new entry starting after each
\* position in cuts.
RECURSIVE Group(_, _)
Group(s, cuts) ==
    IF s = <<>> THEN <<>>
    ELSE LET k == CHOOSE i \in 1..Len(s) :
                     (i \in cuts \/ i = Len(s)) /\ \A j \in 1..(i-1) : j \notin cuts
         IN  <<[messaging |-> Some(SubSeq(s, 1, k))]>>
             \o Group(SubSeq(s, k+1, Len(s)), {c - k : c \in {d \in cuts : d > k}})

\* The entry lists holding at most n events of E in all.
EntryLists(E, n) ==
    {Group(s, cuts) : <<s, cuts>> \in
        UNION {{<<t, c>> : c \in SUBSET (1..(Len(t)-1))} : t \in SeqsUpTo(E, n)}}

\* The events of the batches: a text message, a text message without sender
\* and an optin event.
BatchEvents ==
    { TextEvent(Some(101), <<"H","i">>),
      TextEvent(None, <<"H","i">>),
      OptinEvent(Some(101)) }

BatchBodies ==
    {[object |-> Some("page"), entry |-> Some(en)] :
        en \in EntryLists(BatchEvents, MaxBatch)}
    \cup {[object |-> ob, entry |-> Some(en)] :
            ob \in {Some("user"), None},
            en \in EntryLists({TextEvent(Some(101), <<"H","i">>)}, MaxBatch)}
    \cup {[object |-> None, entry |-> None],
          [object |-> Some("page"), entry |-> None],
          [object |-> Some("page"), entry |-> Some(<<[messaging |-> None]>>)]}

\* Requests without a signature header.
PostBatch == \E data \in BatchBodies : PostWebhook(None, data)

Complete == \E outcome \in SendOutcomes : CompleteSend(outcome)

Next == PostBatch \/ FireTimer \/ Complete

Spec == Init /\ [][Next]_vars


---------------------------------------------------------------------------
(* Requests with every kind of signature header. *)

MenuText == <<"M","e","n","u">>

SigBodies ==
    { [object |-> Some("page"),
       entry |-> Some(<<[messaging |-> Some(<<TextEvent(Some(101), MenuText)>>)]>>)],
      [object |-> Some("page"),
       entry |-> Some(<<[messaging |-> Some(<<PostbackEvent(Some(101),
                            Some("DEVELOPER_DEFINED_PAYLOAD_FOR_LOCATION"))>>)]>>)],
      [object |-> Some("user"), entry |-> Some(<<>>)] }

\* The header values tried with the body data: none, the empty string, the
\* right digest, a digest under another key, the digest of another body,
\* the right digest under another method name, no "=", nothing after "=".
SigHeaders(data) ==
    { None,
      Some(<<>>),
      Some(<<Lit("sha1"), EqSign>> \o HmacSha1Hex(APP_SECRET, data)),
      Some(<<Lit("sha1"), EqSign>> \o HmacSha1Hex("guessed-secret", data)),
      Some(<<Lit("md5"), EqSign>> \o HmacSha1Hex(APP_SECRET, data)),
      Some(HmacSha1Hex(APP_SECRET, data)),
      Some(<<Lit("sha1"), EqSign>>) }
    \cup {Some(<<Lit("sha1"), EqSign>> \o HmacSha1Hex(APP_SECRET, other)) :
            other \in SigBodies \ {data}}

SigRequests == UNION {{<<sig, data>> : sig \in SigHeaders(data)} : data \in SigBodies}

PostSigned == \E r \in SigRequests : PostWebhook(r[1], r[2])

NextSig == PostSigned \/ FireTimer \/ Complete

SpecSig == Init /\ [][NextSig]_vars

---------------------------------------------------------------------------
(* GET /webhook requests. *)

Queries ==
    [mode : {None, Some("subscribe"), Some("unsubscribe")},
     verify_token : {None, Some(VALIDATION_TOKEN), Some("wrong-token")},
     challenge : {None, Some("1158201444")}]

NextGet == \E query \in Queries : GetWebhook(query)

SpecGet == Init /\ [][NextGet]_vars

---------------------------------------------------------------------------
(* Events with every combination of the six variant fields, alone; those  *)
(* with at most one field also followed by a text message in the entry.    *)

Fields == {"optin", "message", "delivery", "postback", "read", "account_linking"}

FieldEvent(F) ==
    [sender |-> Some(101),
     optin |-> "optin" \in F,
     message |-> IF "message" \in F
                 THEN Some(Message(FALSE, None, Some(MenuText), FALSE)) ELSE None,
     delivery |-> "delivery" \in F,
     postback |-> IF "postback" \in F
                  THEN Some([payload |-> Some("DEVELOPER_DEFINED_PAYLOAD_FOR_MENU")])
                  ELSE None,
     read |-> "read" \in F,
     account_linking |-> "account_linking" \in F]

ClassifyBodies ==
    {[object |-> Some("page"), entry |-> Some(<<[messaging |-> Some(m)]>>)] :
        m \in {<<FieldEvent(F)>> : F \in SUBSET Fields}
              \cup {<<FieldEvent(F), TextEvent(Some(102), <<"H","i">>)>> :
                        F \in {G \in SUBSET Fields : Cardinality(G) <= 1}}}

PostClassify == \E data \in ClassifyBodies : PostWebhook(None, data)

NextClassify == PostClassify \/ FireTimer \/ Complete

SpecClassify == Init /\ [][NextClassify]_vars

---------------------------------------------------------------------------
(* Single events: text messages, quick replies and postbacks. *)

Texts ==
    { KwTodaysSpecialApos, KwTodaysSpecial, KwMenu, KwSpecial, KwSpecialDishes,
      KwParty, KwPartySpecial, KwOpeningHours, KwGallery, KwReviews, KwHungry,
      <<"M","E","N","U">>, MenuText, <<"H","u","n","g","r","y">>,
      <<"h","i">>, <<"H","i">>, <<"m","e","n","u","s">>, <<>>,
      <<"G","A","L","L","E","R","Y">>, <<"R","e","v","i","e","w","s">>,
      <<"S","p","e","c","i","a","l"," ","D","i","s","h","e","s">> }

Payloads ==
    { "DEVELOPER_DEFINED_PAYLOAD_FOR_MENU",
      "DEVELOPER_DEFINED_PAYLOAD_FOR_LOCATION",
      "DEVELOPER_DEFINED_PAYLOAD_FOR_OPENING_HOURS",
      "GET_STARTED_BUTTON_PAYLOAD",
      "DEVELOPER_DEFINED_PAYLOAD_FOR_ALL_SPECIAL",
      "DEVELOPER_DEFINED_PAYLOAD_FOR_DAILY_SPECIAL",
      "DEVELOPER_DEFINED_PAYLOAD_FOR_PARTY_SPECIAL",
      "DEVELOPER_DEFINED_PAYLOAD_FOR_ALL_SPECIAL_BACK",
      "DEVELOPER_DEFINED_PAYLOAD_FOR_DAILY_SPECIAL_BACK",
      "DEVELOPER_DEFINED_PAYLOAD_FOR_PARTY_SPECIAL_BACK",
      "DEVELOPER_DEFINED_PAYLOAD_FOR_MAIN_MENU_BACK",
      "DEVELOPER_DEFINED_PAYLOAD_REVIEWS",
      "DEVELOPER_DEFINED_PAYLOAD_FOR_TESTIMONALS",
      "DEVELOPER_DEFINED_PAYLOAD_START_OVER",
      "SOME_OTHER_PAYLOAD",
      "" }

OptPayloads == {None} \cup {Some(p) : p \in Payloads}

MsgEvents ==
    {TextEvent(Some(101), t) : t \in Texts}
    \cup {QuickReplyEvent(Some(101), p) : p \in OptPayloads}
    \cup {PostbackEvent(Some(101), p) : p \in OptPayloads}

MsgBodies ==
    {[object |-> Some("page"), entry |-> Some(<<[messaging |-> Some(<<e>>)]>>)] :
        e \in MsgEvents}

PostMsg == \E data \in MsgBodies : PostWebhook(None, data)

NextMsg == PostMsg \/ FireTimer \/ Complete

SpecMsg == Init /\ [][NextMsg]_vars

---------------------------------------------------------------------------
(* Single events of every kind of message (echo or not, with or without a  *)
(* quick reply, a text, attachments) and the events that are only logged.  *)

KindTexts ==
    { None, Some(<<>>), Some(<<"M","E","N","U">>), Some(MenuText), Some(KwMenu),
      Some(<<"H","i">>) }

KindQuickReplies ==
    { None, Some([payload |-> Some("DEVELOPER_DEFINED_PAYLOAD_FOR_ALL_SPECIAL")]) }

KindEvents ==
    {MessageEvent(Some(101), Message(e, q, t, a)) :
        e \in BOOLEAN, q \in KindQuickReplies, t \in KindTexts, a \in BOOLEAN}
    \cup { DeliveryEvent(Some(101)), ReadEvent(Some(101)), AccountLinkEvent(Some(101)),
           [DeliveryEvent(Some(101)) EXCEPT !.read = TRUE],
           [ReadEvent(Some(101)) EXCEPT !.account_linking = TRUE],
           [DeliveryEvent(Some(101)) EXCEPT
                !.postback = Some([payload |-> Some("DEVELOPER_DEFINED_PAYLOAD_FOR_MENU")])],
           DeliveryEvent(None),
           PostbackEvent(Some(101), Some("GET_STARTED_BUTTON_PAYLOAD")) }

KindBodies ==
    {[object |-> Some("page"), entry |-> Some(<<[messaging |-> Some(<<e>>)]>>)] :
        e \in KindEvents}

PostKind == \E data \in KindBodies : PostWebhook(None, data)

NextKind == PostKind \/ FireTimer \/ Complete

SpecKind == Init /\ [][NextKind]_vars

---------------------------------------------------------------------------
(* Batches of events of two users. *)

PairEvents ==
    { TextEvent(Some(101), <<"H","i">>),
      PostbackEvent(Some(102), Some("DEVELOPER_DEFINED_PAYLOAD_FOR_LOCATION")) }

PairBodies ==
    {[object |-> Some("page"), entry |-> Some(en)] :
        en \in EntryLists(PairEvents, MaxBatch)}

PostPair == \E data \in PairBodies : PostWebhook(None, data)

NextPair == PostPair \/ FireTimer \/ Complete

SpecPair == Init /\ [][NextPair]_vars

---------------------------------------------------------------------------
(* Properties.  They speak of the latest POST request, number nreq. *)

Data == req[1].body

\* The request passed the signature check.
Passed == req # None /\ verifyRequestSignature(req[1].signature, req[1].body)

At(i, j) == [req |-> nreq, entry |-> i, ev |-> j]

IsOfRequest(x) == x.o.req = nreq
IsImmediate(x) == x.o.req = nreq /\ ~x.delayed
IsDelayed(x) == x.o.req = nreq /\ x.delayed

\* What the latest request sent while it was handled, what its timers sent
\* since, and the timers it set that are still pending.
ImmediateSends == SelectSeq(sends, IsImmediate)
DelayedSends == SelectSeq(sends, IsDelayed)
PendingTimers == SelectSeq(timers, IsOfRequest)
RequestCalls == SelectSeq(calls, IsImmediate)

\* The messages of a sequence of sends.
Datas(s) == [k \in 1..Len(s) |-> s[k].data]
Fns(s) == [k \in 1..Len(s) |-> s[k].fn]

\* The sends and calls of the event at entry i, position j, while the
\* request was handled.
SendsOf(i, j) ==
    LET Test(x) == x.o = At(i, j) /\ ~x.delayed
    IN  SelectSeq(sends, Test)
CallsOf(i, j) ==
    LET Test(x) == x.o = At(i, j) /\ ~x.delayed
    IN  SelectSeq(calls, Test)

\* The batch is well-formed: a page envelope whose entries all carry events.
IsPageBatch ==
    /\ req # None
    /\ Data.object = Some("page")
    /\ Data.entry # None
    /\ \A i \in 1..Len(Data.entry[1]) : Data.entry[1][i].messaging # None

EventAt(i, j) == Data.entry[1][i].messaging[1][j]
Positions ==
    {<<i, j>> \in (1..Len(Data.entry[1])) \X (1..MaxBatch + 1) :
        j <= Len(Data.entry[1][i].messaging[1])}

\* The event handled alone, as the only event of the request.
Alone(i, j) ==
    dispatchEvent(NoRun, [o |-> At(i, j), delayed |-> FALSE], EventAt(i, j))

\* C1: every POST /webhook with object "page" that passed the signature
\* check is answered 200, whatever its event handlers do.  (Stated for the
\* batches whose entries all carry a messaging array.)
C1_PageBatchAnswered200 ==
    (Passed /\ IsPageBatch) => (res.sent /\ res.status = 200)

\* C2: when the handling of an event fails, every later event of the batch
\* (same entry or a later entry) is still handled, with the calls and sends
\* it produces alone.  (Stated for the later events that are handled
\* without failure when alone.)
C2_FailuresIsolatedPerEvent ==
    (Passed /\ IsPageBatch) =>
        \A p \in Positions, q \in Positions :
            (/\ Alone(p[1], p[2]).threw # None
             /\ Alone(q[1], q[2]).threw = None
             /\ (p[1] < q[1] \/ (p[1] = q[1] /\ p[2] < q[2])))
            => /\ Datas(SendsOf(q[1], q[2])) = Datas(Alone(q[1], q[2]).sends)
               /\ Fns(CallsOf(q[1], q[2])) = Fns(Alone(q[1], q[2]).calls)

\* C3: a POST /webhook whose object is not "page" is answered 200 and
\* starts no send and no timer.
C3_NonPageAcknowledged ==
    (Passed /\ Data.object # Some("page")) =>
        /\ res.sent /\ res.status = 200
        /\ ImmediateSends = <<>> /\ DelayedSends = <<>> /\ PendingTimers = <<>>

\* A completion that reports a failure: a transport error, or a status
\* other than 200.
IsFailure(outcome) ==
    outcome.error \/ outcome.response = None \/ outcome.response # Some(200)

\* C4: a send that completes with a failure is only logged; the process
\* keeps running.
C4_FailedSendNonFatal ==
    (completion # None /\ IsFailure(completion[1].outcome)) =>
        (alive /\ completion[1].log = "failed")


\* The digest component of a header value "<algorithm>=<hex-digest>": what
\* follows the "=" sign, if there is one.
DigestComponent(header) ==
    IF \E i \in 1..Len(header) : header[i] = EqSign
    THEN Some(SubSeq(header, 1 + CHOOSE i \in 1..Len(header) :
                        header[i] = EqSign /\ \A j \in 1..(i-1) : header[j] # EqSign,
                     Len(header)))
    ELSE None

HeaderAbsent == req[1].signature = None
HeaderEmpty == req[1].signature = Some(<<>>)
DigestMatches ==
    /\ req[1].signature # None
    /\ DigestComponent(req[1].signature[1]) = Some(HmacSha1Hex(APP_SECRET, req[1].body))

\* The body of the latest request reached the handler of POST /webhook.
Reached == \E k \in 1..Len(calls) : calls[k].fn = "webhookPost" /\ calls[k].o.req = nreq

\* The latest request was aborted: no handler ran, nothing was sent or
\* scheduled, and the process runs on (alive until some send completes).
Aborted ==
    /\ ~Reached
    /\ RequestCalls = <<>> /\ ImmediateSends = <<>>
    /\ DelayedSends = <<>> /\ PendingTimers = <<>>
    /\ res.sent /\ res.status # 200
    /\ (completion = None => alive)

Subscribed(g) ==
    g.query.mode = Some("subscribe") /\ g.query.verify_token = Some(VALIDATION_TOKEN)
ChallengeOf(g) == IF g.query.challenge = None THEN "" ELSE g.query.challenge[1]

\* C6 as stated: GET /webhook answers 200 with hub.challenge if and only if
\* the mode is "subscribe" and the token is the configured one; otherwise
\* 403 with an empty body.
C6_VerificationAsStated ==
    \A k \in 1..Len(gets) :
        /\ (gets[k].res.status = 200 /\ gets[k].res.body = ChallengeOf(gets[k]))
                <=> Subscribed(gets[k])
        /\ ~Subscribed(gets[k]) => (gets[k].res.status = 403 /\ gets[k].res.body = "")

\* C6 amended: ... otherwise 403 with the status text "Forbidden" as body.
C6_Verification ==
    \A k \in 1..Len(gets) :
        /\ gets[k].res.sent
        /\ (gets[k].res.status = 200 /\ gets[k].res.body = ChallengeOf(gets[k]))
                <=> Subscribed(gets[k])
        /\ ~Subscribed(gets[k]) =>
                (gets[k].res.status = 403 /\ gets[k].res.body = "Forbidden")

\* A subscription with the right token was answered with its challenge, and
\* one with a wrong token was refused.
C6_Witness ==
    /\ Len(gets) = 2
    /\ Subscribed(gets[1]) /\ gets[1].res.body = "1158201444"
    /\ gets[2].query.mode = Some("subscribe")
    /\ gets[2].query.verify_token = Some("wrong-token")
    /\ gets[2].res.status = 403


\* The variant fields in their priority order, and the handler of each.
Priority == <<"optin", "message", "delivery", "postback", "read", "account_linking">>
HandlerOf ==
    <<"receivedAuthentication", "receivedMessage", "receivedDeliveryConfirmation",
      "receivedPostback", "receivedMessageRead", "receivedAccountLink">>

\* The positions in Priority of the fields the event carries.
Populated(event) ==
    {k \in 1..Len(Priority) :
        CASE Priority[k] = "optin" -> event.optin
          [] Priority[k] = "message" -> event.message # None
          [] Priority[k] = "delivery" -> event.delivery
          [] Priority[k] = "postback" -> event.postback # None
          [] Priority[k] = "read" -> event.read
          [] Priority[k] = "account_linking" -> event.account_linking}

\* The handlers the dispatcher invoked for the event at entry i, position j.
HandlersInvoked(i, j) ==
    LET Test(x) == \E k \in 1..Len(HandlerOf) : x.fn = HandlerOf[k]
    IN  Fns(SelectSeq(CallsOf(i, j), Test))

\* The dispatch loop got to the event at position p: no earlier event's
\* handler threw.
LoopReached(p) ==
    \A q \in Positions :
        (q[1] < p[1] \/ (q[1] = p[1] /\ q[2] < p[2])) => Alone(q[1], q[2]).threw = None

\* C7: every event the dispatch loop gets to is classified by the first
\* populated field in the order optin > message > delivery > postback >
\* read > account_linking, and exactly that one handler is invoked for it;
\* an event with none of the fields invokes no handler, throws nothing, and
\* the events after it are still handled.
C7_ClassifiedByPriority ==
    (Passed /\ IsPageBatch) =>
        \A p \in Positions :
            LoopReached(p) =>
                LET F == Populated(EventAt(p[1], p[2]))
                IN  IF F = {}
                    THEN /\ HandlersInvoked(p[1], p[2]) = <<>>
                         /\ Alone(p[1], p[2]).threw = None
                         /\ \A q \in Positions :
                                (q[1] = p[1] /\ q[2] = p[2] + 1) =>
                                    Len(HandlersInvoked(q[1], q[2])) =
                                        IF Populated(EventAt(q[1], q[2])) = {} THEN 0 ELSE 1
                    ELSE HandlersInvoked(p[1], p[2]) =
                            <<HandlerOf[CHOOSE k \in F : \A m \in F : k <= m]>>

\* An event carrying every field but optin was handled as a message, and
\* the event after an event with no field was handled too.
C7_Witness ==
    \/ /\ Passed /\ IsPageBatch
       /\ Populated(EventAt(1, 1)) = {2, 3, 4, 5, 6}
       /\ HandlersInvoked(1, 1) = <<"receivedMessage">>
    \/ /\ Passed /\ IsPageBatch
       /\ Populated(EventAt(1, 1)) = {}
       /\ <<1, 2>> \in Positions
       /\ HandlersInvoked(1, 2) = <<"receivedMessage">>

\* The request is a batch of one event.
IsSingleEvent ==
    /\ IsPageBatch
    /\ Len(Data.entry[1]) = 1
    /\ Len(Data.entry[1][1].messaging[1]) = 1
TheEvent == EventAt(1, 1)
TheSender == TheEvent.sender[1]

KeywordTable ==
    { KwTodaysSpecialApos, KwTodaysSpecial, KwMenu, KwSpecial, KwSpecialDishes,
      KwParty, KwPartySpecial, KwOpeningHours, KwGallery, KwReviews, KwHungry }

\* A non-echo, non-quick-reply message whose lowercased text is not in the
\* keyword table.
IsUnlistedText(event) ==
    /\ event.message # None
    /\ ~event.message[1].is_echo
    /\ event.message[1].quick_reply = None
    /\ event.message[1].text # None
    /\ toLowerCase(event.message[1].text[1]) \notin KeywordTable

WelcomeTo(r) == MessageData(r, "generic", "", <<"Welcome to Famous Greek ">>)
GreetingTo(r) == MessageData(r, "text", "Hi, We'r happy to see u..", <<>>)

CountOf(seq, x) == Cardinality({k \in 1..Len(seq) : seq[k] = x})

\* One welcome was sent at once and one greeting is sent by a timer of
\* 1000 ms, the welcome first, both to the sender; nothing else is delayed.
WelcomeThenGreeting ==
    /\ CountOf(Datas(ImmediateSends), WelcomeTo(TheSender)) = 1
    /\ CountOf(Datas(ImmediateSends), GreetingTo(TheSender)) = 0
    /\ \A k \in 1..Len(ImmediateSends) : ImmediateSends[k].data.recipient = TheSender
    /\ Len(PendingTimers) + Len(DelayedSends) = 1
    /\ \A k \in 1..Len(PendingTimers) :
            PendingTimers[k] = [fn |-> "greetText", arg |-> TheSender,
                                delay |-> 1000, o |-> At(1, 1)]
    /\ \A k \in 1..Len(DelayedSends) : DelayedSends[k].data = GreetingTo(TheSender)
    /\ \A k \in 1..Len(sends), m \in 1..Len(sends) :
            (/\ IsImmediate(sends[k]) /\ sends[k].data = WelcomeTo(TheSender)
             /\ IsDelayed(sends[m])) => k < m

\* C8 as stated: every non-echo, non-quick-reply message whose lowercased
\* text is not in the keyword table gets one welcome at once and one
\* greeting after the delay.
C8_WelcomeThenGreetingAsStated ==
    (Passed /\ IsSingleEvent /\ IsUnlistedText(TheEvent)) => WelcomeThenGreeting

\* C8 amended: ... every such message whose text is not empty ...
C8_WelcomeThenGreeting ==
    (Passed /\ IsSingleEvent /\ IsUnlistedText(TheEvent)
        /\ TheEvent.message[1].text[1] # <<>>) => WelcomeThenGreeting

\* The text "Hi" was answered with the welcome, and its timer has fired.
C8_Witness ==
    /\ Passed /\ IsSingleEvent
    /\ TheEvent = TextEvent(Some(101), <<"H","i">>)
    /\ Datas(DelayedSends) = <<GreetingTo(101)>>

\* The payload of the event, a quick reply or a postback.
IsQuickReply(event) ==
    /\ event.message # None /\ ~event.optin
    /\ ~event.message[1].is_echo /\ event.message[1].quick_reply # None
IsPostback(event) ==
    /\ event.postback # None
    /\ ~event.optin /\ event.message = None /\ ~event.delivery
PayloadOf(event) ==
    IF event.message # None THEN event.message[1].quick_reply[1].payload
    ELSE event.postback[1].payload

\* The same payload sent the other way: as a postback if the event is a
\* quick reply, as a quick reply if it is a postback.
Counterpart(event) ==
    IF event.message # None THEN PostbackEvent(event.sender, PayloadOf(event))
    ELSE QuickReplyEvent(event.sender, PayloadOf(event))

\* The latest request sent and scheduled what the event other does alone.
SameSendsAs(other) ==
    LET rs == dispatchEvent(NoRun, [o |-> At(1, 1), delayed |-> FALSE], other)
    IN  /\ Datas(ImmediateSends) = Datas(rs.sends)
        /\ Len(PendingTimers) + Len(DelayedSends) = Len(rs.timers)

\* C9 as stated: for every payload, a quick reply and a postback carrying it
\* produce the same sends.  (Stated here for the payloads other than
\* PARTY_SPECIAL, whose case lacks a break in both switches.)
C9_QuickReplyAsPostbackAsStated ==
    (Passed /\ IsSingleEvent /\ (IsQuickReply(TheEvent) \/ IsPostback(TheEvent))
        /\ PayloadOf(TheEvent) # Some("DEVELOPER_DEFINED_PAYLOAD_FOR_PARTY_SPECIAL"))
        => SameSendsAs(Counterpart(TheEvent))

\* The payloads the two switches treat alike: those both list with the same
\* action, START_OVER, and the payloads neither lists (the empty and the
\* missing payload among them).
AlikePayloads ==
    OptPayloads \ {Some(p) : p \in
        { "DEVELOPER_DEFINED_PAYLOAD_FOR_MENU",
          "DEVELOPER_DEFINED_PAYLOAD_FOR_LOCATION",
          "DEVELOPER_DEFINED_PAYLOAD_FOR_OPENING_HOURS",
          "GET_STARTED_BUTTON_PAYLOAD",
          "DEVELOPER_DEFINED_PAYLOAD_FOR_PARTY_SPECIAL",
          "DEVELOPER_DEFINED_PAYLOAD_FOR_ALL_SPECIAL_BACK",
          "DEVELOPER_DEFINED_PAYLOAD_FOR_DAILY_SPECIAL_BACK",
          "DEVELOPER_DEFINED_PAYLOAD_FOR_PARTY_SPECIAL_BACK",
          "DEVELOPER_DEFINED_PAYLOAD_FOR_MAIN_MENU_BACK",
          "DEVELOPER_DEFINED_PAYLOAD_REVIEWS",
          "DEVELOPER_DEFINED_PAYLOAD_FOR_TESTIMONALS" }}

\* C9 amended: a quick reply and a postback produce the same sends for the
\* payloads ALL_SPECIAL, DAILY_SPECIAL and START_OVER and for every payload
\* neither switch lists; the two switches are different tables.
C9_QuickReplyAsPostback ==
    (Passed /\ IsSingleEvent /\ (IsQuickReply(TheEvent) \/ IsPostback(TheEvent))
        /\ PayloadOf(TheEvent) \in AlikePayloads)
        => SameSendsAs(Counterpart(TheEvent))

\* A quick reply with the all-specials payload was answered.
C9_Witness ==
    /\ Passed /\ IsSingleEvent /\ IsQuickReply(TheEvent)
    /\ PayloadOf(TheEvent) = Some("DEVELOPER_DEFINED_PAYLOAD_FOR_ALL_SPECIAL")
    /\ Len(ImmediateSends) = 2

\* The reply functions other than the typing indicator.
ReplyActions ==
    { "sendWelcomeMessage", "sendMainMenu", "sendLocationTemplate",
      "sendOpeningHoursText", "sendQuickReplySpecial", "sendAllSpecial",
      "sendDailySpecial", "sendPartySpecial", "sendQuickRepliesActions",
      "showTestimonials", "showReviews", "greetText" }

RepliesCalled ==
    LET Test(x) == x.fn \in ReplyActions
    IN  Fns(SelectSeq(RequestCalls, Test))

\* C10: a postback or quick reply with the party-special payload calls the
\* party-special reply and no reply action of another payload case.
C10_PartySpecialOnly ==
    (Passed /\ IsSingleEvent /\ (IsQuickReply(TheEvent) \/ IsPostback(TheEvent))
        /\ PayloadOf(TheEvent) = Some("DEVELOPER_DEFINED_PAYLOAD_FOR_PARTY_SPECIAL"))
        => RepliesCalled = <<"sendPartySpecial">>


\* The upper-case form of a character.
UpperOf(c) ==
    IF \E i \in 1..Len(LowerChars) : LowerChars[i] = c
    THEN UpperChars[CHOOSE i \in 1..Len(LowerChars) : LowerChars[i] = c]
    ELSE c

\* The text t spells the keyword kw, each letter in either case.
SpelledAnyCase(t, kw) ==
    /\ Len(t) = Len(kw)
    /\ \A k \in 1..Len(kw) : t[k] \in {kw[k], UpperOf(kw[k])}

\* An event handled as a message that is neither an echo nor a quick reply.
IsPlainMessage(event) ==
    /\ ~event.optin /\ event.message # None /\ event.sender # None
    /\ ~event.message[1].is_echo
    /\ event.message[1].quick_reply = None

TheText == TheEvent.message[1].text

TypingTo(r) == MessageData(r, "sender_action", "typing_on", <<>>)
MainMenuTo(r) ==
    MessageData(r, "generic", "",
        <<"Family Meals", "Soups & Starters", "Salads", "Party Salads",
          "Party Platters", "Beverages">>)
AllSpecialTo(r) ==
    MessageData(r, "generic", "",
        <<"1/4 Greek Chicken", "Famous Greek Combo", "Moussaka">>)
LocationTo(r) == MessageData(r, "generic", "", <<"Famous Greek Salads">>)
HoursTo(r) == MessageData(r, "text", "RESTAURANT HOURS", <<>>)
PromptTo(r) ==
    MessageData(r, "quick_replies",
        "Checkout our most appreciated dishes by our customer's",
        <<"DEVELOPER_DEFINED_PAYLOAD_FOR_ALL_SPECIAL",
          "DEVELOPER_DEFINED_PAYLOAD_FOR_DAILY_SPECIAL",
          "DEVELOPER_DEFINED_PAYLOAD_FOR_PARTY_SPECIAL">>)

\* The request set no timer: none is pending and none has fired.
NothingDelayed == PendingTimers = <<>> /\ DelayedSends = <<>>

\* C11: every non-echo, non-quick-reply message whose text spells "menu"
\* in any letter case gets exactly one send of the main-menu template;
\* every other send of the request is the typing indicator, so no welcome,
\* no greeting and no other template is sent, at once or later.
C11_MenuInAnyCase ==
    (Passed /\ IsSingleEvent /\ IsPlainMessage(TheEvent)
        /\ TheText # None /\ SpelledAnyCase(TheText[1], KwMenu)) =>
        /\ CountOf(Datas(ImmediateSends), MainMenuTo(TheSender)) = 1
        /\ \A k \in 1..Len(ImmediateSends) :
                ImmediateSends[k].data \in {MainMenuTo(TheSender), TypingTo(TheSender)}
        /\ NothingDelayed

\* The text "MENU", sent along with an attachment, was answered with the
\* main menu.
C11_Witness ==
    /\ Passed /\ IsSingleEvent
    /\ TheEvent = MessageEvent(Some(101),
                      Message(FALSE, None, Some(<<"M","E","N","U">>), TRUE))
    /\ Datas(ImmediateSends) = <<TypingTo(101), MainMenuTo(101)>>

\* C12: a postback with payload DEVELOPER_DEFINED_PAYLOAD_FOR_MENU produces
\* the sends of the text message "menu" from the same sender (same
\* messages, same order, nothing delayed in either), and the text message
\* those of the postback.
C12_MenuPostbackAsText ==
    (Passed /\ IsSingleEvent /\ TheEvent.sender # None) =>
        /\ (IsPostback(TheEvent)
              /\ PayloadOf(TheEvent) = Some("DEVELOPER_DEFINED_PAYLOAD_FOR_MENU")) =>
                /\ SameSendsAs(TextEvent(TheEvent.sender, KwMenu))
                /\ NothingDelayed
        /\ (TheEvent = TextEvent(TheEvent.sender, KwMenu)) =>
                /\ SameSendsAs(PostbackEvent(TheEvent.sender,
                                    Some("DEVELOPER_DEFINED_PAYLOAD_FOR_MENU")))
                /\ NothingDelayed

\* The menu postback was answered with the typing indicator and the menu.
C12_Witness ==
    /\ Passed /\ IsSingleEvent
    /\ TheEvent = PostbackEvent(Some(101), Some("DEVELOPER_DEFINED_PAYLOAD_FOR_MENU"))
    /\ Datas(ImmediateSends) = <<TypingTo(101), MainMenuTo(101)>>

Synonyms == {KwTodaysSpecialApos, KwTodaysSpecial, KwSpecial, KwSpecialDishes}

\* C13: a text message spelling "today's special", "todays special",
\* "special" or "special dishes" produces the sends each of the four
\* produces for the same sender, the all-specials template among them
\* exactly once, and nothing delayed.
C13_SpecialSynonyms ==
    (Passed /\ IsSingleEvent /\ IsPlainMessage(TheEvent) /\ TheText # None
        /\ \E kw \in Synonyms : SpelledAnyCase(TheText[1], kw)) =>
        /\ \A kw \in Synonyms : SameSendsAs(TextEvent(TheEvent.sender, kw))
        /\ CountOf(Datas(ImmediateSends), AllSpecialTo(TheSender)) = 1
        /\ NothingDelayed

\* The text "special dishes" was answered with the all-specials template.
C13_Witness ==
    /\ Passed /\ IsSingleEvent
    /\ TheEvent = TextEvent(Some(101), KwSpecialDishes)
    /\ Datas(ImmediateSends) = <<TypingTo(101), AllSpecialTo(101)>>


\* C14: a message with is_echo true, whatever its text, attachments and
\* quick_reply hold, causes no send: none while the request is handled,
\* none by a timer.
C14_EchoNeverAnswered ==
    (Passed /\ IsSingleEvent /\ TheEvent.message # None /\ TheEvent.message[1].is_echo) =>
        /\ ImmediateSends = <<>>
        /\ NothingDelayed

\* An echo carrying a text, a quick reply and attachments was handled by
\* receivedMessage and acknowledged.
C14_Witness ==
    /\ Passed /\ IsSingleEvent
    /\ TheEvent = MessageEvent(Some(101),
                      Message(TRUE,
                              Some([payload |-> Some("DEVELOPER_DEFINED_PAYLOAD_FOR_ALL_SPECIAL")]),
                              Some(<<"H","i">>), TRUE))
    /\ Fns(RequestCalls) = <<"webhookPost", "receivedMessage">>
    /\ res = sendStatus(200)
    /\ sends = <<>>

\* The reply primary was sent once while the request was handled, and one
\* quick-reply prompt is sent by a timer of 1000 ms, the reply first, both
\* to the sender; nothing else is delayed.
ReplyThenPrompt(primary) ==
    /\ CountOf(Datas(ImmediateSends), primary) = 1
    /\ CountOf(Datas(ImmediateSends), PromptTo(TheSender)) = 0
    /\ Len(PendingTimers) + Len(DelayedSends) = 1
    /\ \A k \in 1..Len(PendingTimers) :
            PendingTimers[k] = [fn |-> "sendQuickReplySpecial", arg |-> TheSender,
                                delay |-> 1000, o |-> At(1, 1)]
    /\ \A k \in 1..Len(DelayedSends) : DelayedSends[k].data = PromptTo(TheSender)
    /\ \A k \in 1..Len(sends), m \in 1..Len(sends) :
            (/\ IsImmediate(sends[k]) /\ sends[k].data = primary
             /\ IsDelayed(sends[m])) => k < m

\* C15: a postback with the LOCATION payload sends the location template at
\* once and exactly one quick-reply special prompt after the delay; one with
\* the OPENING_HOURS payload sends the hours text at once and exactly one
\* prompt after the delay; the primary reply comes before the prompt.
C15_ReplyThenDelayedPrompt ==
    (Passed /\ IsSingleEvent /\ IsPostback(TheEvent) /\ TheEvent.sender # None) =>
        /\ (PayloadOf(TheEvent) = Some("DEVELOPER_DEFINED_PAYLOAD_FOR_LOCATION")) =>
                ReplyThenPrompt(LocationTo(TheSender))
        /\ (PayloadOf(TheEvent) = Some("DEVELOPER_DEFINED_PAYLOAD_FOR_OPENING_HOURS")) =>
                ReplyThenPrompt(HoursTo(TheSender))

\* The opening-hours postback was answered and its timer has fired.
C15_Witness ==
    /\ Passed /\ IsSingleEvent
    /\ TheEvent = PostbackEvent(Some(101),
                      Some("DEVELOPER_DEFINED_PAYLOAD_FOR_OPENING_HOURS"))
    /\ Datas(sends) = <<TypingTo(101), HoursTo(101), PromptTo(101)>>
    /\ Datas(DelayedSends) = <<PromptTo(101)>>

\* An event handled as a delivery, a read or an account-linking event, or
\* as a postback with the get-started payload.
IsLogOnly(event) ==
    /\ ~event.optin /\ event.message = None
    /\ \/ event.delivery
       \/ /\ event.postback # None
          /\ event.postback[1].payload = Some("GET_STARTED_BUTTON_PAYLOAD")
       \/ /\ event.postback = None
          /\ (event.read \/ event.account_linking)

\* C16: a delivery event, a read event, an account_linking event and a
\* postback with payload GET_STARTED_BUTTON_PAYLOAD cause no send: none
\* while the request is handled, none by a timer.
C16_LogOnlyEventsNeverReply ==
    (Passed /\ IsSingleEvent /\ IsLogOnly(TheEvent)) =>
        /\ ImmediateSends = <<>>
        /\ NothingDelayed

\* A delivery event was handled by receivedDeliveryConfirmation and
\* acknowledged, nothing was sent.
C16_Witness ==
    /\ Passed /\ IsSingleEvent
    /\ TheEvent = DeliveryEvent(Some(101))
    /\ Fns(RequestCalls) = <<"webhookPost", "receivedDeliveryConfirmation">>
    /\ res = sendStatus(200)
    /\ sends = <<>>

Reserved == {KwGallery, KwReviews, KwHungry}

\* C17: a text message spelling "gallery", "reviews" or "hungry" in any
\* letter case causes no send, and neither the welcome nor the delayed
\* greeting of the default case.
C17_ReservedKeywordsNoOp ==
    (Passed /\ IsSingleEvent /\ IsPlainMessage(TheEvent) /\ TheText # None
        /\ \E kw \in Reserved : SpelledAnyCase(TheText[1], kw)) =>
        /\ ImmediateSends = <<>>
        /\ NothingDelayed

\* The text "GALLERY" was handled by receivedMessage and acknowledged,
\* nothing was sent.
C17_Witness ==
    /\ Passed /\ IsSingleEvent
    /\ TheEvent = TextEvent(Some(101), <<"G","A","L","L","E","R","Y">>)
    /\ Fns(RequestCalls) = <<"webhookPost", "receivedMessage">>
    /\ res = sendStatus(200)
    /\ sends = <<>>

\* C18: a non-echo, non-quick-reply message with attachments and no text
\* (none, or the empty text) gets the welcome exactly once; every other
\* send is the typing indicator, and no timer is set.
C18_AttachmentsGetWelcomeOnly ==
    (Passed /\ IsSingleEvent /\ IsPlainMessage(TheEvent)
        /\ TheEvent.message[1].attachments /\ ~TruthyText(TheText)) =>
        /\ CountOf(Datas(ImmediateSends), WelcomeTo(TheSender)) = 1
        /\ \A k \in 1..Len(ImmediateSends) :
                ImmediateSends[k].data \in {WelcomeTo(TheSender), TypingTo(TheSender)}
        /\ NothingDelayed

\* A message with attachments and no text was answered with the welcome.
C18_Witness ==
    /\ Passed /\ IsSingleEvent
    /\ TheEvent = MessageEvent(Some(101), Message(FALSE, None, None, TRUE))
    /\ Datas(sends) = <<TypingTo(101), WelcomeTo(101)>>
    /\ timers = <<>>


\* The latest request was answered 200.
Acknowledged == res.sent /\ res.status = 200

\* C19: for every POST /webhook, the 200 response is issued before a
\* completion callback of a send the request started runs, and before a
\* delayed follow-up the request scheduled fires.  So whenever a timer of
\* the latest request has fired, that request has been answered 200; and so
\* whenever a completion callback has run after the first request (the
\* sends in flight are then all of that request).
C19_AckBeforeOutboundWork ==
    Passed =>
        /\ (DelayedSends # <<>>) => Acknowledged
        /\ (nreq = 1 /\ completion # None) => Acknowledged

\* The sender of the event a send or a timer of the latest request comes
\* from.
SenderAt(o) == EventAt(o.entry, o.ev).sender

\* The sends and the pending timers of the latest request are addressed to
\* the sender of the event they come from.
AddressedToSender ==
    (Passed /\ IsPageBatch) =>
        /\ \A k \in 1..Len(sends) :
                IsOfRequest(sends[k]) =>
                    SenderAt(sends[k].o) = Some(sends[k].data.recipient)
        /\ \A k \in 1..Len(timers) :
                IsOfRequest(timers[k]) => SenderAt(timers[k].o) = Some(timers[k].arg)

\* A pending timer stays in the queue as it was set while requests are
\* handled, and leaves it only by firing; what it then sends goes to the
\* user it was set for.
TimerKeepsItsUser ==
    /\ (nreq' # nreq) =>
            /\ Len(timers') >= Len(timers)
            /\ SubSeq(timers', 1, Len(timers)) = timers
    /\ (nreq' = nreq /\ timers' # timers) =>
            /\ timers' = Tail(timers)
            /\ Len(sends') > Len(sends)
            /\ SubSeq(sends', 1, Len(sends)) = sends
            /\ \A k \in (Len(sends) + 1)..Len(sends') :
                    /\ sends'[k].data.recipient = Head(timers).arg
                    /\ sends'[k].o = Head(timers).o
                    /\ sends'[k].delayed

\* C20: every send, the typing indicators and the delayed follow-ups that
\* fire after other events or requests were handled included, is addressed
\* to the sender of the event that triggered it.
C20_RecipientIsSender == []AddressedToSender /\ [][TimerKeepsItsUser]_vars

\* The prompt set by a location postback of user 102 in the first request
\* fired after the second request, which answered user 101.
C20_Witness ==
    /\ nreq = 2 /\ Passed /\ IsPageBatch
    /\ \E k \in 1..Len(sends) :
            /\ sends[k].o.req = 1 /\ sends[k].delayed
            /\ sends[k].data = PromptTo(102)
    /\ \E m \in 1..Len(sends) :
            IsImmediate(sends[m]) /\ sends[m].data = WelcomeTo(101)


\* The message of the event without the fields in drop.
Without(event, drop) ==
    MessageEvent(event.sender,
        Message(event.message[1].is_echo,
                IF "quick_reply" \in drop THEN None ELSE event.message[1].quick_reply,
                IF "text" \in drop THEN None ELSE event.message[1].text,
                IF "attachments" \in drop THEN FALSE ELSE event.message[1].attachments))

\* C21: within a message event the sub-kind is chosen in the order echo >
\* quick_reply > text > attachments.  A non-echo message with a quick reply
\* is handled by the quick-reply payload switch alone, as if it had neither
\* text nor attachments (with the all-specials payload: typing indicator
\* and all-specials template, whatever the text); a non-echo message
\* without quick reply, with a text and attachments, is handled as the text
\* alone; one without quick reply, with empty or missing text and without
\* attachments, causes no send.
C21_SubKindOrder ==
    (Passed /\ IsSingleEvent /\ TheEvent.sender # None /\ ~TheEvent.optin
        /\ TheEvent.message # None /\ ~TheEvent.message[1].is_echo) =>
        /\ (TheEvent.message[1].quick_reply # None) =>
                /\ SameSendsAs(Without(TheEvent, {"text", "attachments"}))
                /\ CountOf(Fns(RequestCalls), "receivedQuickReplyPostback") = 1
                /\ (PayloadOf(TheEvent) = Some("DEVELOPER_DEFINED_PAYLOAD_FOR_ALL_SPECIAL")) =>
                        /\ Datas(ImmediateSends) =
                                <<TypingTo(TheSender), AllSpecialTo(TheSender)>>
                        /\ NothingDelayed
        /\ (TheEvent.message[1].quick_reply = None /\ TruthyText(TheText)
              /\ TheEvent.message[1].attachments) =>
                /\ SameSendsAs(Without(TheEvent, {"attachments"}))
                /\ CountOf(Fns(RequestCalls), "receivedQuickReplyPostback") = 0
        /\ (TheEvent.message[1].quick_reply = None /\ ~TruthyText(TheText)
              /\ ~TheEvent.message[1].attachments) =>
                /\ ImmediateSends = <<>>
                /\ NothingDelayed

\* A quick reply with the all-specials payload that also carries the text
\* "MENU" and attachments was answered with the all-specials template.
C21_Witness ==
    /\ Passed /\ IsSingleEvent
    /\ TheEvent = MessageEvent(Some(101),
                      Message(FALSE,
                              Some([payload |-> Some("DEVELOPER_DEFINED_PAYLOAD_FOR_ALL_SPECIAL")]),
                              Some(<<"M","E","N","U">>), TRUE))
    /\ Datas(sends) = <<TypingTo(101), AllSpecialTo(101)>>

=============================================================================
